---------------------------- MODULE Spec2Model ----------------------------
(***************************************************************************)
(* Lifecycle orchestrator, instance cache and request scopes of           *)
(* adc_appkit (BaseApp, DIContainer, ComponentInfo, Component).            *)
(*                                                                         *)
(* BaseApp reads the registry through `self._container.components` and     *)
(* the per-component `dependencies` map; the registry is the mapping      *)
(* DIContainer._components filled at construction.                         *)
(***************************************************************************)
EXTENDS Integers, Sequences, FiniteSets, TLC

(***************************************************************************)
(* Universe of the model                                                   *)
(***************************************************************************)
\* declared component names, in class-body (declaration) order
Decl == <<"A", "B", "C">>

Names == {Decl[i] : i \in 1..Len(Decl)}

\* a name no component is registered under
Ghost == "ghost"

\* bound on the number of public calls (start / stop / configure) in a run
MaxCalls == 2

\* bound on the number of public calls in a run of one fixed application
MaxLifeCalls == 5

\* bound on the number of direct calls on Component objects in a run
MaxCompCalls == 5

\* bound on the number of Component objects constructed in a run
MaxInst == 3

\* bound on the number of request scopes opened in a run
MaxScopes == 2

\* bound on the number of component lookups in a run
MaxGets == 2

\* concurrent tasks, each with its own copy of the context
Tasks == {"t1", "t2"}

Objs == 1..MaxInst
Scopes == 1..MaxScopes

SINGLETON == "singleton"
REQUEST == "request"

REGISTERED == "registered"
CONFIGURED == "configured"
STARTED == "started"
STOPPED == "stopped"
ERROR == "error"

ComponentState == {REGISTERED, CONFIGURED, STARTED, STOPPED, ERROR}

Range(s) == {s[i] : i \in 1..Len(s)}

\* iteration in list order instead of reverse order
reversed_forward(s) == s

\* reversed(list)
reversed(s) == [i \in 1..Len(s) |-> s[Len(s) + 1 - i]]

\* dependency maps a descriptor may declare (values in insertion order)
DepLists ==
    {<<>>} \cup {<<d>> : d \in Names \cup {Ghost}}
           \cup {<<p[1], p[2]>> : p \in {q \in Names \X Names : q[1] # q[2]}}

VARIABLES
    strategy,            \* ComponentInfo.strategy, per name
    dependencies,        \* ComponentInfo.dependencies (values, in order)
    state,               \* ComponentInfo.state
    config,              \* ComponentInfo.config: "none" | "empty" | "full"
    instance,            \* ComponentInfo.instance: object id, 0 for None
    instances,           \* DIContainer._instances: object id, 0 if absent
    nextInst,            \* number of Component objects constructed so far
    obj_config,          \* Component._config, per object
    obj_started,         \* Component._started, per object
    started_singletons,  \* BaseApp._started_singletons
    pc,                  \* position of the caller: idle | pass | stop | rollback
    idx,                 \* position of the for loop of _start
    changes,             \* local `changes` of _start
    k,                   \* position of the reversed() iterator of stop
    err,                 \* exception in flight inside start()
    result,              \* outcome of the last finished call
    startLog,            \* _start hooks invoked by the current start() call
    stopLog,             \* _stop hooks invoked by the current stop()/rollback
    calls,               \* number of public calls made
    op,                  \* the public call in progress or last finished
    entry,               \* what held when that call was made
    cur,                 \* _current_scope_var per task: scope id, 0 for None
    stack,               \* `async with` nesting of each task (scope ids)
    nscopes,             \* number of _RequestScopeManager objects created
    mgr_task,            \* task that created and entered the manager
    token,               \* _RequestScopeManager._token: the value to restore
    cache,               \* _RequestScopeManager._cache, in insertion order
    closed,              \* _RequestScopeManager._closed
    exited,              \* how __aexit__ of the manager ended: no | ok | failed
    body_raised,         \* whether the body of the scope raised
    stops,               \* stop() calls made on the object by a scope exit
    born,                \* scope whose cache the object was created into
    resolved_by,         \* task whose lookup constructed the request object
    lastGet,             \* the most recent lookup
    prevGet,             \* the lookup before it
    gets,                \* number of lookups made
    limit,               \* number of public calls the run may make
    health,              \* the map returned by the last healthcheck()
    call,                \* the last direct call on a component or registry
    legacy,              \* the components are of the class of component.py
    obj_value,           \* Component._obj, per object: 0 for None
    hookLog              \* _start / _stop hooks invoked by direct calls

lifeVars == <<strategy, dependencies, state, config, instance, instances,
              nextInst, obj_config, obj_started, started_singletons, pc,
              idx, changes, k, err, result, startLog, stopLog, calls,
              op, entry>>

scopeVars == <<cur, stack, nscopes, mgr_task, token, cache, closed, exited,
               body_raised, stops, born, resolved_by, lastGet, prevGet,
               gets>>

auxVars == <<limit, health, call>>

compVars == <<legacy, obj_value, hookLog>>

vars == <<lifeVars, scopeVars, auxVars, compVars>>

NoErr == [kind |-> "none", names |-> {}]
Ok == [kind |-> "ok", names |-> {}]
Exc(kind, names) == [kind |-> kind, names |-> names]

NoGet == [task |-> "none", name |-> "none", scope |-> 0, id |-> 0]

\* no healthcheck() has returned a map
NoHealth == [n \in Names |-> "absent"]

NoCall == [fn |-> "none"]

(***************************************************************************)
(* ComponentInfo.set_state                                                 *)
(***************************************************************************)
\* a table that also lets a STARTED component be configured
valid_transitions_loose(s) ==
    CASE s = REGISTERED -> {CONFIGURED, ERROR}
      [] s = CONFIGURED -> {STARTED, ERROR}
      [] s = STARTED -> {STOPPED, ERROR, CONFIGURED}
      [] s = STOPPED -> {CONFIGURED, ERROR}
      [] s = ERROR -> {REGISTERED, CONFIGURED, STARTED, STOPPED}

valid_transitions(s) ==
    CASE s = REGISTERED -> {CONFIGURED, ERROR}
      [] s = CONFIGURED -> {STARTED, ERROR}
      [] s = STARTED -> {STOPPED, ERROR}
      [] s = STOPPED -> {CONFIGURED, ERROR}
      [] s = ERROR -> {REGISTERED, CONFIGURED, STARTED, STOPPED}

\* TRUE when set_state(new) returns, FALSE when it raises
set_state_ok(cur_state, new) ==
    cur_state = new \/ new \in valid_transitions(cur_state)

(***************************************************************************)
(* DIContainer.get_component                                               *)
(***************************************************************************)
\* truthiness test `if info.config:` : None and {} are both falsy
truthy(c) == c = "full"

\* Component._config of a freshly constructed object for name n
new_config(n) == IF truthy(config[n]) THEN config[n] ELSE "none"

\* scope_cache[name], 0 when the name is not a key of the cache
RECURSIVE cache_find(_, _, _)
cache_find(c, n, i) ==
    IF i > Len(c) THEN 0
    ELSE IF c[i].name = n THEN c[i].id
    ELSE cache_find(c, n, i + 1)

cache_ids(c) == {c[i].id : i \in 1..Len(c)}

\* a container that never finds a request object in the scope cache
cached_no_scope_hit(n, sc) ==
    IF strategy[n] = SINGLETON THEN instances[n] ELSE 0

\* the cached object get_component returns without constructing one;
\* sc is the scope_cache argument (0 for None); 0 when there is none
cached(n, sc) ==
    IF strategy[n] = SINGLETON THEN instances[n]
    ELSE IF sc # 0 THEN cache_find(cache[sc], n, 1)
    ELSE 0

\* the object get_component(n, scope_cache=sc) returns
returned(n, sc) == IF cached(n, sc) # 0 THEN cached(n, sc) ELSE nextInst + 1

\* a get_component that stores every object it creates in the scope cache
get_component_caches_all(n, sc) ==
    /\ cached(n, sc) # 0 \/ nextInst < MaxInst
    /\ IF cached(n, sc) # 0
       THEN UNCHANGED <<instances, cache, nextInst, obj_config>>
       ELSE /\ nextInst' = nextInst + 1
            /\ obj_config' = [obj_config EXCEPT ![nextInst + 1] = new_config(n)]
            /\ instances' = IF strategy[n] = SINGLETON
                            THEN [instances EXCEPT ![n] = nextInst + 1]
                            ELSE instances
            /\ cache' = IF sc # 0
                        THEN [cache EXCEPT ![sc] =
                                Append(@, [name |-> n, id |-> nextInst + 1])]
                        ELSE cache

\* the effect of get_component(n, scope_cache=sc) on the container, the
\* scope cache and the heap
get_component(n, sc) ==
    /\ cached(n, sc) # 0 \/ nextInst < MaxInst
    /\ IF cached(n, sc) # 0
       THEN UNCHANGED <<instances, cache, nextInst, obj_config>>
       ELSE /\ nextInst' = nextInst + 1
            /\ obj_config' = [obj_config EXCEPT ![nextInst + 1] = new_config(n)]
            /\ instances' = IF strategy[n] = SINGLETON
                            THEN [instances EXCEPT ![n] = nextInst + 1]
                            ELSE instances
            /\ cache' = IF strategy[n] = REQUEST /\ sc # 0
                        THEN [cache EXCEPT ![sc] =
                                Append(@, [name |-> n, id |-> nextInst + 1])]
                        ELSE cache

(***************************************************************************)
(* BaseApp.check_dependency_is_ready                                       *)
(***************************************************************************)
\* outcome of the loop over the dependencies of n from position i on:
\* "ready" (return True), "notready" (return False), or the raise
RECURSIVE dep_check(_, _)
dep_check(n, i) ==
    IF i > Len(dependencies[n]) THEN [res |-> "ready", dep |-> n]
    ELSE LET d == dependencies[n][i] IN
         IF d \notin Names THEN [res |-> "unknown", dep |-> d]
         ELSE IF strategy[d] # strategy[n] THEN [res |-> "mismatch", dep |-> d]
         ELSE IF d \notin Range(started_singletons)
              THEN [res |-> "notready", dep |-> d]
         ELSE dep_check(n, i + 1)

check_dependency_is_ready(n) == dep_check(n, 1)

singleton_components == {n \in Names : strategy[n] = SINGLETON}

\* snapshot taken when a public call is made; cycle tells whether the call
\* directly follows a start() that returned with every singleton STARTED
\* and a stop() that returned ("stopped"),
\* or configure() calls made after such a pair ("reconfigured")
at_entry ==
    [configured |-> \A n \in singleton_components : state[n] = CONFIGURED,
     prev |-> op,
     prev_ok |-> result = Ok,
     covers |-> Range(startLog) = Range(started_singletons),
     all_started |-> \A n \in singleton_components : state[n] = STARTED,
     cycle |-> IF /\ op = "stop" /\ result = Ok
                  /\ entry.prev = "start" /\ entry.prev_ok
                  /\ entry.all_started
               THEN "stopped"
               ELSE IF op = "configure" /\ entry.cycle # "other"
               THEN "reconfigured"
               ELSE "other"]

(***************************************************************************)
(* Initial state: the application object after BaseApp.__init__            *)
(***************************************************************************)
\* strategies of the declared components: at most one REQUEST component
StrategyChoices ==
    {f \in [Names -> {SINGLETON, REQUEST}] :
        Cardinality({n \in Names : f[n] = REQUEST}) <= 1}

\* components_config values, {} or a non-empty mapping: at most one {}
ConfigChoices ==
    {f \in [Names -> {"empty", "full"}] :
        Cardinality({n \in Names : f[n] = "empty"}) <= 1}

\* ComponentInfo.dependencies of the registered components: the
\* `dependencies` map of each descriptor, as BaseApp reads it
registered_dependencies == [Names -> DepLists]

\* the fields a new DIContainer, BaseApp and heap start with
InitEmpty ==
    /\ instance = [n \in Names |-> 0]
    /\ instances = [n \in Names |-> 0]
    /\ nextInst = 0
    /\ obj_config = [o \in Objs |-> "none"]
    /\ obj_started = [o \in Objs |-> FALSE]
    /\ started_singletons = <<>>
    /\ pc = "idle"
    /\ idx = 0
    /\ changes = FALSE
    /\ k = 0
    /\ err = NoErr
    /\ result = NoErr
    /\ startLog = <<>>
    /\ stopLog = <<>>
    /\ calls = 0
    /\ op = "none"
    /\ entry = [configured |-> TRUE, prev |-> "none", prev_ok |-> FALSE,
                covers |-> TRUE, all_started |-> FALSE, cycle |-> "other"]
    /\ health = NoHealth
    /\ call = NoCall
    /\ obj_value = [o \in Objs |-> 0]
    /\ hookLog = <<>>

InitRegistry ==
    /\ state = [n \in Names |-> CONFIGURED]
    /\ InitEmpty

InitScopes ==
    /\ cur = [t \in Tasks |-> 0]
    /\ stack = [t \in Tasks |-> <<>>]
    /\ nscopes = 0
    /\ mgr_task = [m \in Scopes |-> "none"]
    /\ token = [m \in Scopes |-> 0]
    /\ cache = [m \in Scopes |-> <<>>]
    /\ closed = [m \in Scopes |-> FALSE]
    /\ exited = [m \in Scopes |-> "no"]
    /\ body_raised = [m \in Scopes |-> FALSE]
    /\ stops = [o \in Objs |-> 0]
    /\ born = [o \in Objs |-> 0]
    /\ resolved_by = [o \in Objs |-> "none"]
    /\ lastGet = NoGet
    /\ prevGet = NoGet
    /\ gets = 0

Init ==
    /\ strategy \in StrategyChoices
    /\ dependencies \in registered_dependencies
    /\ config \in ConfigChoices
    /\ limit = MaxCalls
    /\ legacy = FALSE
    /\ InitRegistry
    /\ InitScopes

(***************************************************************************)
(* BaseApp.start / BaseApp._start / BaseApp.start_component                *)
(***************************************************************************)
\* a `while` test that counts every registered component
more_to_start_counts_all ==
    Len(started_singletons) < Cardinality(Names)

\* the `while` test of _start
more_to_start ==
    Len(started_singletons) < Cardinality(singleton_components)

\* an exception leaves _start: start() catches it and calls stop()
raise_in_start(e) ==
    /\ err' = e
    /\ pc' = "rollback"
    /\ k' = 1
    /\ stopLog' = <<>>
    /\ UNCHANGED <<idx, changes, result, started_singletons>>

start ==
    /\ pc = "idle"
    /\ calls < limit
    /\ calls' = calls + 1
    /\ op' = "start"
    /\ entry' = at_entry
    /\ startLog' = <<>>
    /\ stopLog' = <<>>
    /\ err' = NoErr
    /\ IF more_to_start
       THEN /\ pc' = "pass"
            /\ idx' = 1
            /\ changes' = FALSE
            /\ result' = NoErr
       ELSE /\ pc' = "idle"
            /\ result' = Ok
            /\ UNCHANGED <<idx, changes>>
    /\ UNCHANGED <<strategy, dependencies, state, config, instance,
                   instances, nextInst, obj_config, obj_started,
                   started_singletons, k>>
    /\ UNCHANGED scopeVars
    /\ UNCHANGED auxVars
    /\ UNCHANGED compVars

\* a start_component that does not test the config of the instance
start_component_no_config_test(n, ok) ==
    LET inst == returned(n, 0)
        hook == ~obj_started[inst]
        fails == hook /\ ~ok
    IN  /\ get_component(n, 0)
        /\ startLog' = IF hook THEN Append(startLog, n) ELSE startLog
        /\ IF fails
           THEN /\ state' = [state EXCEPT ![n] =
                               IF set_state_ok(state[n], ERROR)
                               THEN ERROR ELSE state[n]]
                /\ raise_in_start(Exc("start_hook", {n}))
                /\ UNCHANGED <<instance, obj_started>>
           ELSE /\ obj_started' = [obj_started EXCEPT ![inst] = TRUE]
                /\ state' = [state EXCEPT ![n] = STARTED]
                /\ instance' = [instance EXCEPT ![n] = inst]
                /\ started_singletons' = Append(started_singletons, n)
                /\ changes' = TRUE
                /\ idx' = idx + 1
                /\ UNCHANGED <<pc, k, err, result, stopLog>>

\* start_component(n) once the state test has passed; ok is the outcome
\* of the component's _start hook
start_component(n, ok) ==
    LET inst == returned(n, 0)
        cfg == IF cached(n, 0) # 0 THEN obj_config[inst] ELSE new_config(n)
        hook == cfg # "none" /\ ~obj_started[inst]
        fails == cfg = "none" \/ (hook /\ ~ok)
    IN  /\ get_component(n, 0)
        /\ startLog' = IF hook THEN Append(startLog, n) ELSE startLog
        /\ IF fails
           THEN /\ state' = [state EXCEPT ![n] =
                               IF set_state_ok(state[n], ERROR)
                               THEN ERROR ELSE state[n]]
                /\ raise_in_start(
                      Exc(IF cfg = "none" THEN "config_not_set"
                          ELSE "start_hook", {n}))
                /\ UNCHANGED <<instance, obj_started>>
           ELSE /\ obj_started' = [obj_started EXCEPT ![inst] = TRUE]
                /\ state' = [state EXCEPT ![n] = STARTED]
                /\ instance' = [instance EXCEPT ![n] = inst]
                /\ started_singletons' = Append(started_singletons, n)
                /\ changes' = TRUE
                /\ idx' = idx + 1
                /\ UNCHANGED <<pc, k, err, result, stopLog>>

\* an iteration whose start_component does not test the state
start_iter_any_state ==
    /\ pc = "pass"
    /\ idx <= Len(Decl)
    /\ LET n == Decl[idx]
           chk == check_dependency_is_ready(n)
       IN  IF \/ strategy[n] # SINGLETON
              \/ state[n] = STARTED
              \/ chk.res = "notready"
           THEN /\ idx' = idx + 1
                /\ UNCHANGED <<state, instance, instances, nextInst,
                               obj_config, obj_started, started_singletons,
                               pc, changes, k, err, result, startLog,
                               stopLog, cache>>
           ELSE IF chk.res # "ready"
           THEN /\ raise_in_start(Exc(chk.res, {n, chk.dep}))
                /\ UNCHANGED <<state, instance, instances, nextInst,
                               obj_config, obj_started, startLog, cache>>
           ELSE \E ok \in BOOLEAN : start_component(n, ok)
    /\ UNCHANGED <<strategy, dependencies, config, calls, op, entry>>
    /\ UNCHANGED <<cur, stack, nscopes, mgr_task, token, closed, exited,
                   body_raised, stops, born, resolved_by, lastGet, prevGet,
                   gets>>
    /\ UNCHANGED auxVars
    /\ UNCHANGED compVars

\* one iteration of the `for name, info in components.items()` loop
start_iter ==
    /\ pc = "pass"
    /\ idx <= Len(Decl)
    /\ LET n == Decl[idx]
           chk == check_dependency_is_ready(n)
       IN  IF \/ strategy[n] # SINGLETON
              \/ state[n] = STARTED
              \/ chk.res = "notready"
           THEN /\ idx' = idx + 1
                /\ UNCHANGED <<state, instance, instances, nextInst,
                               obj_config, obj_started, started_singletons,
                               pc, changes, k, err, result, startLog,
                               stopLog, cache>>
           ELSE IF chk.res # "ready"
           THEN /\ raise_in_start(Exc(chk.res, {n, chk.dep}))
                /\ UNCHANGED <<state, instance, instances, nextInst,
                               obj_config, obj_started, startLog, cache>>
           ELSE IF state[n] # CONFIGURED
           THEN /\ raise_in_start(Exc("not_configured", {n}))
                /\ UNCHANGED <<state, instance, instances, nextInst,
                               obj_config, obj_started, startLog, cache>>
           ELSE \E ok \in BOOLEAN : start_component(n, ok)
    /\ UNCHANGED <<strategy, dependencies, config, calls, op, entry>>
    /\ UNCHANGED <<cur, stack, nscopes, mgr_task, token, closed, exited,
                   body_raised, stops, born, resolved_by, lastGet, prevGet,
                   gets>>
    /\ UNCHANGED auxVars
    /\ UNCHANGED compVars

\* end of one pass: `if not changes: raise`, then the `while` test again
start_pass_end ==
    /\ pc = "pass"
    /\ idx > Len(Decl)
    /\ IF ~changes
       THEN raise_in_start(Exc("circular", {}))
       ELSE IF more_to_start
       THEN /\ idx' = 1
            /\ changes' = FALSE
            /\ UNCHANGED <<pc, k, err, result, stopLog, started_singletons>>
       ELSE /\ pc' = "idle"
            /\ result' = Ok
            /\ UNCHANGED <<idx, changes, k, err, stopLog,
                           started_singletons>>
    /\ UNCHANGED <<strategy, dependencies, state, config, instance,
                   instances, nextInst, obj_config, obj_started, startLog,
                   calls, op, entry>>
    /\ UNCHANGED scopeVars
    /\ UNCHANGED auxVars
    /\ UNCHANGED compVars

(***************************************************************************)
(* BaseApp.stop                                                            *)
(***************************************************************************)
stop ==
    /\ pc = "idle"
    /\ calls < limit
    /\ calls' = calls + 1
    /\ op' = "stop"
    /\ entry' = at_entry
    /\ pc' = "stop"
    /\ k' = 1
    /\ stopLog' = <<>>
    /\ result' = NoErr
    /\ UNCHANGED <<strategy, dependencies, state, config, instance,
                   instances, nextInst, obj_config, obj_started,
                   started_singletons, idx, changes, err, startLog>>
    /\ UNCHANGED scopeVars
    /\ UNCHANGED auxVars
    /\ UNCHANGED compVars

\* the body of the `for name in reversed(...)` loop for name n; ok is the
\* outcome of the component's _stop hook
stop_component(n, ok) ==
    LET inst == instance[n]
        hook == inst # 0 /\ obj_started[inst]
    IN  /\ stopLog' = IF hook THEN Append(stopLog, n) ELSE stopLog
        /\ IF hook /\ ~ok
           THEN /\ pc' = "idle"
                /\ result' = Exc("stop_hook", {})
                /\ UNCHANGED <<state, instance, obj_started, k>>
           ELSE /\ obj_started' =
                     IF hook THEN [obj_started EXCEPT ![inst] = FALSE]
                     ELSE obj_started
                /\ IF set_state_ok(state[n], STOPPED)
                   THEN /\ state' = [state EXCEPT ![n] = STOPPED]
                        /\ instance' = [instance EXCEPT ![n] = 0]
                        /\ k' = k + 1
                        /\ UNCHANGED <<pc, result>>
                   ELSE /\ pc' = "idle"
                        /\ result' = Exc("bad_transition", {})
                        /\ UNCHANGED <<state, instance, k>>

stop_iter ==
    /\ pc \in {"stop", "rollback"}
    /\ k <= Len(started_singletons)
    /\ \E ok \in BOOLEAN :
          stop_component(reversed(started_singletons)[k], ok)
    /\ UNCHANGED <<strategy, dependencies, config, instances, nextInst,
                   obj_config, started_singletons, idx, changes, err,
                   startLog, calls, op, entry>>
    /\ UNCHANGED scopeVars
    /\ UNCHANGED auxVars
    /\ UNCHANGED compVars

\* a stop() that returns without clearing the started list
stop_end_keeps_list ==
    /\ pc \in {"stop", "rollback"}
    /\ k > Len(started_singletons)
    /\ pc' = "idle"
    /\ result' = IF pc = "stop" THEN Ok ELSE err
    /\ UNCHANGED <<strategy, dependencies, state, config, instance,
                   instances, nextInst, obj_config, obj_started, idx,
                   changes, k, err, startLog, stopLog, calls, op, entry,
                   started_singletons>>
    /\ UNCHANGED scopeVars
    /\ UNCHANGED auxVars
    /\ UNCHANGED compVars

\* `self._started_singletons.clear()`, then stop() returns; inside start()
\* the caught exception is re-raised as "Failed to start app: ..."
stop_end ==
    /\ pc \in {"stop", "rollback"}
    /\ k > Len(started_singletons)
    /\ started_singletons' = <<>>
    /\ pc' = "idle"
    /\ result' = IF pc = "stop" THEN Ok ELSE err
    /\ UNCHANGED <<strategy, dependencies, state, config, instance,
                   instances, nextInst, obj_config, obj_started, idx,
                   changes, k, err, startLog, stopLog, calls, op, entry>>
    /\ UNCHANGED scopeVars
    /\ UNCHANGED auxVars
    /\ UNCHANGED compVars

(***************************************************************************)
(* BaseApp.configure / DIContainer.configure                               *)
(***************************************************************************)
configure ==
    /\ pc = "idle"
    /\ calls < limit
    /\ \E n \in Names, c \in {"empty", "full"} :
          /\ config' = [config EXCEPT ![n] = c]
          /\ state' = [state EXCEPT ![n] = CONFIGURED]
    /\ calls' = calls + 1
    /\ op' = "configure"
    /\ entry' = at_entry
    /\ result' = Ok
    /\ UNCHANGED <<strategy, dependencies, instance, instances, nextInst,
                   obj_config, obj_started, started_singletons, pc, idx,
                   changes, k, err, startLog, stopLog>>
    /\ UNCHANGED scopeVars
    /\ UNCHANGED auxVars
    /\ UNCHANGED compVars

(***************************************************************************)
(* ComponentInfo.set_state called directly on registry entries             *)
(***************************************************************************)
\* set_state(new) on the ComponentInfo of n
set_state ==
    /\ \E n \in Names, new \in ComponentState :
          /\ state' = [state EXCEPT ![n] =
                          IF set_state_ok(state[n], new) THEN new ELSE @]
          /\ call' = [fn |-> "set_state", name |-> n, old |-> state[n],
                      new |-> new, raised |-> ~set_state_ok(state[n], new)]
    /\ UNCHANGED <<strategy, dependencies, config, instance, instances,
                   nextInst, obj_config, obj_started, started_singletons,
                   pc, idx, changes, k, err, result, startLog, stopLog,
                   calls, op, entry>>
    /\ UNCHANGED scopeVars
    /\ UNCHANGED <<limit, health>>
    /\ UNCHANGED compVars

\* registry entries as ComponentInfo(...) creates them: REGISTERED, no config
InitInfo ==
    /\ strategy = [n \in Names |-> SINGLETON]
    /\ dependencies = [n \in Names |-> <<>>]
    /\ config = [n \in Names |-> "none"]
    /\ state = [n \in Names |-> REGISTERED]
    /\ limit = MaxCalls
    /\ legacy = FALSE
    /\ InitEmpty
    /\ InitScopes

NextInfo == set_state

SpecInfo == InitInfo /\ [][NextInfo]_vars

(***************************************************************************)
(* BaseApp.__init__                                                        *)
(***************************************************************************)
\* config keys the descriptors name and components_config may hold
Keys == {"k1", "k2", "k3"}

\* position in declaration order of the first component whose config key
\* is not in components_config cc; 0 when every key is there
RECURSIVE first_missing(_, _, _)
first_missing(key, cc, i) ==
    IF i > Len(Decl) THEN 0
    ELSE IF cc[key[Decl[i]]] = "absent" THEN i
    ELSE first_missing(key, cc, i + 1)

\* the components the loop of __init__ configures: those before position j
configured_upto(j) ==
    {Decl[i] : i \in 1..(IF j = 0 THEN Len(Decl) ELSE j - 1)}

\* a constructor that skips a component whose key is missing
construct_skips_missing ==
    /\ call = NoCall
    /\ \E key \in [Names -> Keys], cc \in [Keys -> {"absent", "empty", "full"}] :
          /\ state' = [n \in Names |->
                          IF cc[key[n]] # "absent" THEN CONFIGURED
                          ELSE state[n]]
          /\ config' = [n \in Names |->
                           IF cc[key[n]] # "absent" THEN cc[key[n]]
                           ELSE config[n]]
          /\ call' = [fn |-> "BaseApp", key |-> key, cc |-> cc,
                      raised |-> FALSE, name |-> "none"]
    /\ UNCHANGED <<strategy, dependencies, instance, instances, nextInst,
                   obj_config, obj_started, started_singletons, pc, idx,
                   changes, k, err, result, startLog, stopLog, calls, op,
                   entry>>
    /\ UNCHANGED scopeVars
    /\ UNCHANGED <<limit, health>>
    /\ UNCHANGED compVars

\* BaseApp(components_config=cc) for descriptors whose config keys are key
construct ==
    /\ call = NoCall
    /\ \E key \in [Names -> Keys], cc \in [Keys -> {"absent", "empty", "full"}] :
          LET j == first_missing(key, cc, 1) IN
          /\ state' = [n \in Names |->
                          IF n \in configured_upto(j) THEN CONFIGURED
                          ELSE state[n]]
          /\ config' = [n \in Names |->
                           IF n \in configured_upto(j) THEN cc[key[n]]
                           ELSE config[n]]
          /\ call' = [fn |-> "BaseApp", key |-> key, cc |-> cc,
                      raised |-> j # 0,
                      name |-> IF j # 0 THEN Decl[j] ELSE "none"]
    /\ UNCHANGED <<strategy, dependencies, instance, instances, nextInst,
                   obj_config, obj_started, started_singletons, pc, idx,
                   changes, k, err, result, startLog, stopLog, calls, op,
                   entry>>
    /\ UNCHANGED scopeVars
    /\ UNCHANGED <<limit, health>>
    /\ UNCHANGED compVars

NextInit == construct

\* the registry after register_from_descriptors, before the configuration
\* loop of __init__
SpecInit == InitInfo /\ [][NextInit]_vars

(***************************************************************************)
(* Component used directly: construction, start, stop, obj                 *)
(***************************************************************************)
\* the value the next _start hook returns: hooks return fresh objects
next_value == Len(SelectSeq(hookLog, LAMBDA e : e.hook = "_start")) + 1

\* the lifecycle variables a direct call on a component leaves alone
directFrame ==
    /\ UNCHANGED <<strategy, dependencies, state, config, instance,
                   instances, started_singletons, pc, idx, changes, k, err,
                   result, startLog, stopLog, op, entry>>
    /\ UNCHANGED scopeVars
    /\ UNCHANGED <<limit, health, legacy>>

\* Component() followed, unless c is "none", by set_config(c)
Component_new ==
    /\ calls < limit
    /\ nextInst < MaxInst
    /\ \E c \in {"none", "empty", "full"} :
          obj_config' = [obj_config EXCEPT ![nextInst + 1] = c]
    /\ nextInst' = nextInst + 1
    /\ calls' = calls + 1
    /\ call' = [fn |-> "Component", obj |-> nextInst + 1, raised |-> FALSE]
    /\ UNCHANGED <<obj_started, obj_value, hookLog>>
    /\ directFrame

\* start() of object o; ok is the outcome of its _start hook
Component_start(o, ok) ==
    /\ calls < limit
    /\ calls' = calls + 1
    /\ IF ~legacy /\ obj_started[o]
       THEN /\ call' = [fn |-> "Component.start", obj |-> o, raised |-> FALSE]
            /\ UNCHANGED <<obj_started, obj_value, hookLog>>
       ELSE IF ~legacy /\ obj_config[o] = "none"
       THEN /\ call' = [fn |-> "Component.start", obj |-> o, raised |-> TRUE]
            /\ UNCHANGED <<obj_started, obj_value, hookLog>>
       ELSE /\ hookLog' = Append(hookLog,
                                 [obj |-> o, hook |-> "_start", ok |-> ok])
            /\ call' = [fn |-> "Component.start", obj |-> o, raised |-> ~ok]
            /\ IF ok
               THEN /\ obj_value' = [obj_value EXCEPT ![o] = next_value]
                    /\ obj_started' = [obj_started EXCEPT ![o] = TRUE]
               ELSE UNCHANGED <<obj_started, obj_value>>
    /\ UNCHANGED <<nextInst, obj_config>>
    /\ directFrame

\* a stop() that calls the _stop hook whether the component started or not
Component_stop_unguarded(o, ok) ==
    /\ calls < limit
    /\ calls' = calls + 1
    /\ hookLog' = Append(hookLog, [obj |-> o, hook |-> "_stop", ok |-> ok])
    /\ call' = [fn |-> "Component.stop", obj |-> o, raised |-> ~ok]
    /\ IF ok /\ ~legacy
       THEN obj_started' = [obj_started EXCEPT ![o] = FALSE]
       ELSE UNCHANGED obj_started
    /\ UNCHANGED <<nextInst, obj_config, obj_value>>
    /\ directFrame

\* stop() of object o; ok is the outcome of its _stop hook
Component_stop(o, ok) ==
    /\ calls < limit
    /\ calls' = calls + 1
    /\ IF ~legacy /\ ~obj_started[o]
       THEN /\ call' = [fn |-> "Component.stop", obj |-> o, raised |-> FALSE]
            /\ UNCHANGED <<obj_started, hookLog>>
       ELSE /\ hookLog' = Append(hookLog,
                                 [obj |-> o, hook |-> "_stop", ok |-> ok])
            /\ call' = [fn |-> "Component.stop", obj |-> o, raised |-> ~ok]
            /\ IF ok /\ ~legacy
               THEN obj_started' = [obj_started EXCEPT ![o] = FALSE]
               ELSE UNCHANGED obj_started
    /\ UNCHANGED <<nextInst, obj_config, obj_value>>
    /\ directFrame

\* the `obj` property of object o
Component_obj(o) ==
    /\ calls < limit
    /\ calls' = calls + 1
    /\ call' = [fn |-> "Component.obj", obj |-> o,
                raised |-> ~obj_started[o],
                ret |-> IF obj_started[o] THEN obj_value[o] ELSE 0]
    /\ UNCHANGED <<nextInst, obj_config, obj_started, obj_value, hookLog>>
    /\ directFrame

\* no object yet; the class of the components is either of the two
InitComp ==
    /\ strategy = [n \in Names |-> SINGLETON]
    /\ dependencies = [n \in Names |-> <<>>]
    /\ config = [n \in Names |-> "none"]
    /\ state = [n \in Names |-> REGISTERED]
    /\ limit = MaxCompCalls
    /\ legacy \in BOOLEAN
    /\ InitEmpty
    /\ InitScopes

NextComp ==
    \/ Component_new
    \/ \E o \in 1..nextInst, ok \in BOOLEAN : Component_start(o, ok)
    \/ \E o \in 1..nextInst, ok \in BOOLEAN : Component_stop(o, ok)
    \/ \E o \in 1..nextInst : Component_obj(o)

SpecComp == InitComp /\ [][NextComp]_vars

(***************************************************************************)
(* DIContainer.get_dependency_order                                        *)
(***************************************************************************)
\* visited, temp and order as get_dependency_order creates them; stack is
\* the chain of visit() calls that have not returned, raised the exception
\* that left the function
NewOrderState ==
    [visited |-> {}, temp |-> {}, order |-> <<>>, stack |-> <<>>,
     raised |-> NoErr]

RECURSIVE visit(_, _)
RECURSIVE visit_deps(_, _, _)
\* the nested function visit(node)
visit(st, node) ==
    IF st.raised # NoErr THEN st
    ELSE IF node \in st.visited THEN st
    ELSE IF node \in st.temp
    THEN [st EXCEPT !.raised = Exc("circular", {node})]
    ELSE LET s1 == visit_deps([st EXCEPT !.temp = @ \cup {node},
                                         !.stack = Append(@, node)],
                              node, 1)
         IN  IF s1.raised # NoErr THEN s1
             ELSE [s1 EXCEPT !.temp = @ \ {node},
                             !.stack = SubSeq(@, 1, Len(@) - 1),
                             !.visited = @ \cup {node},
                             !.order = Append(@, node)]

\* the loop `for dep in self._components[node].dependencies` from its
\* i-th element on
visit_deps(st, node, i) ==
    IF st.raised # NoErr \/ i > Len(dependencies[node]) THEN st
    ELSE LET dep == dependencies[node][i]
         IN  IF dep \notin Names
             THEN [st EXCEPT !.raised = Exc("unknown", {dep, node})]
             ELSE visit_deps(visit(st, dep), node, i + 1)

RECURSIVE visit_all(_, _)
\* the loop `for n in self._components: visit(n)` from its i-th name on
visit_all(st, i) ==
    IF st.raised # NoErr \/ i > Len(Decl) THEN st
    ELSE visit_all(visit(st, Decl[i]), i + 1)

get_dependency_order ==
    /\ pc = "idle"
    /\ calls < limit
    /\ calls' = calls + 1
    /\ LET st == visit_all(NewOrderState, 1)
       IN  call' = [fn |-> "get_dependency_order",
                    raised |-> st.raised,
                    order |-> IF st.raised = NoErr THEN st.order ELSE <<>>,
                    stack |-> st.stack]
    /\ UNCHANGED <<strategy, dependencies, state, config, instance,
                   instances, nextInst, obj_config, obj_started,
                   started_singletons, pc, idx, changes, k, err, result,
                   startLog, stopLog, op, entry>>
    /\ UNCHANGED scopeVars
    /\ UNCHANGED <<limit, health>>
    /\ UNCHANGED compVars

NextOrder == get_dependency_order

\* the container after register_from_descriptors, for every declared graph
SpecOrder == Init /\ [][NextOrder]_vars

(***************************************************************************)
(* Legacy orchestrator: App of src/appkit/app.py                           *)
(***************************************************************************)
\* The attributes Decl of the App are components (inspect.getmembers
\* yields them sorted by name, which is the order of Decl);
\* dependencies[n] lists the keys of the dependencies dict of component n
\* in the order in which set(deps.keys()) is iterated.
Nodes == Names \cup {Ghost}

RECURSIVE add_nodes(_, _, _)
\* the nodes of TopologicalSorter(graph) in the order add() registers
\* them: each name, then its predecessors, from the j-th predecessor of
\* the i-th name on
add_nodes(i, j, acc) ==
    IF i > Len(Decl) THEN acc
    ELSE LET n == Decl[i]
             a1 == IF n \in Range(acc) THEN acc ELSE Append(acc, n)
         IN  IF j > Len(dependencies[n]) THEN add_nodes(i + 1, 1, a1)
             ELSE LET d == dependencies[n][j]
                  IN  add_nodes(i, j + 1,
                                IF d \in Range(a1) THEN a1
                                ELSE Append(a1, d))

\* nodeinfo.successors of node p: the names that list p, in add() order
successors(p) == SelectSeq(Decl, LAMBDA n : p \in Range(dependencies[n]))

RECURSIVE done_node(_, _, _, _)
\* done(node): every successor loses one predecessor and becomes ready
\* when none is left; st is [npred, ready]
done_node(succ, i, npred, ready) ==
    IF i > Len(succ) THEN [npred |-> npred, ready |-> ready]
    ELSE LET m == succ[i]
             np == [npred EXCEPT ![m] = @ - 1]
         IN  done_node(succ, i + 1, np,
                       IF np[m] = 0 THEN Append(ready, m) ELSE ready)

RECURSIVE done_group(_, _, _, _)
\* done(*node_group)
done_group(group, i, npred, ready) ==
    IF i > Len(group) THEN [npred |-> npred, ready |-> ready]
    ELSE LET r == done_node(successors(group[i]), 1, npred, ready)
         IN  done_group(group, i + 1, r.npred, r.ready)

RECURSIVE ready_loop(_, _, _)
\* the loop of static_order(): yield the ready nodes, mark them done
ready_loop(ready, npred, out) ==
    IF ready = <<>> THEN out
    ELSE LET r == done_group(ready, 1, npred, <<>>)
         IN  ready_loop(r.ready, r.npred, out \o ready)

\* the order the loop yields when no cycle stops prepare()
yielded ==
    LET nodes == add_nodes(1, 1, <<>>)
        npred == [n \in Nodes |->
                    IF n \in Names THEN Len(dependencies[n]) ELSE 0]
    IN  ready_loop(SelectSeq(nodes, LAMBDA n : npred[n] = 0), npred, <<>>)

\* prepare() raises CycleError: some node never becomes ready
has_cycle == Len(yielded) < Len(add_nodes(1, 1, <<>>))

RECURSIVE start_walk(_, _, _, _)
\* the loop of App.start over the order from position i on; F are the
\* components whose _start hook fails; log lists the components started
start_walk(order, i, F, log) ==
    IF i > Len(order) THEN [log |-> log, raised |-> FALSE]
    ELSE LET n == order[i]
         IN  IF n \notin Names THEN start_walk(order, i + 1, F, log)
             ELSE IF Ghost \in Range(dependencies[n]) \/ n \in F
             THEN [log |-> log, raised |-> TRUE]
             ELSE start_walk(order, i + 1, F, Append(log, n))

RECURSIVE stop_walk(_, _, _, _)
\* the loop of App.stop over the sequence s from position i on; G are the
\* components whose _stop hook fails; log lists the components stopped
stop_walk(s, i, G, log) ==
    IF i > Len(s) THEN [log |-> log, raised |-> FALSE]
    ELSE IF s[i] \in G THEN [log |-> log, raised |-> TRUE]
    ELSE stop_walk(s, i + 1, G, Append(log, s[i]))

\* the variables a call on the legacy App leaves alone
appFrame ==
    /\ UNCHANGED <<strategy, dependencies, state, config, instance,
                   instances, nextInst, obj_config, obj_started,
                   started_singletons, pc, idx, changes, k, err, result,
                   op, entry>>
    /\ UNCHANGED scopeVars
    /\ UNCHANGED <<limit, health>>
    /\ UNCHANGED compVars

App_start ==
    /\ calls < limit
    /\ calls' = calls + 1
    /\ \E F \in SUBSET Names :
          LET w == IF has_cycle THEN [log |-> <<>>, raised |-> TRUE]
                   ELSE start_walk(yielded, 1, F, <<>>)
          IN  /\ startLog' = w.log
              /\ call' = [fn |-> "App.start", raised |-> w.raised,
                          after_start |-> FALSE]
    /\ UNCHANGED stopLog
    /\ appFrame

App_stop ==
    /\ calls < limit
    /\ calls' = calls + 1
    /\ \E G \in SUBSET Names :
          LET w == stop_walk(reversed(Decl), 1, G, <<>>)
          IN  /\ stopLog' = w.log
              /\ call' = [fn |-> "App.stop", raised |-> w.raised,
                          after_start |-> call.fn = "App.start"
                                          /\ ~call.raised]
    /\ UNCHANGED startLog
    /\ appFrame

\* an App whose attributes Decl are legacy components, for every
\* declaration of their dependencies
InitApp ==
    /\ strategy = [n \in Names |-> SINGLETON]
    /\ dependencies \in registered_dependencies
    /\ config = [n \in Names |-> "full"]
    /\ state = [n \in Names |-> REGISTERED]
    /\ limit = MaxCalls
    /\ legacy = TRUE
    /\ InitEmpty
    /\ InitScopes

NextApp ==
    \/ App_start
    \/ App_stop

SpecApp == InitApp /\ [][NextApp]_vars

(***************************************************************************)
(* BaseApp.healthcheck                                                     *)
(***************************************************************************)
\* index of the first name of list l, from position i on, whose probe is
\* invoked and throws; 0 when there is none
RECURSIVE first_throw(_, _, _)
first_throw(l, probe, i) ==
    IF i > Len(l) THEN 0
    ELSE IF instance[l[i]] # 0 /\ probe[l[i]] = "raise" THEN i
    ELSE first_throw(l, probe, i + 1)

\* healthcheck(); probe[n] is what is_alive() of the instance of n does:
\* return true, return false or throw
healthcheck ==
    /\ pc = "idle"
    /\ calls < limit
    /\ \E probe \in [Names -> {"true", "false", "raise"}] :
          LET l == started_singletons
              j == first_throw(l, probe, 1)
              seen == {l[i] : i \in 1..(IF j = 0 THEN Len(l) ELSE j)}
          IN  /\ call' = [fn |-> "healthcheck",
                          probe |-> [n \in Names |->
                                       IF n \in seen /\ instance[n] # 0
                                       THEN probe[n] ELSE "none"]]
              /\ IF j # 0
                 THEN /\ result' = Exc("probe", {l[j]})
                      /\ health' = NoHealth
                 ELSE /\ result' = Ok
                      /\ health' = [n \in Names |->
                                      IF n \notin Range(l) THEN "absent"
                                      ELSE IF instance[n] # 0 THEN probe[n]
                                      ELSE "true"]
    /\ calls' = calls + 1
    /\ op' = "healthcheck"
    /\ entry' = at_entry
    /\ UNCHANGED <<strategy, dependencies, state, config, instance,
                   instances, nextInst, obj_config, obj_started,
                   started_singletons, pc, idx, changes, k, err, startLog,
                   stopLog>>
    /\ UNCHANGED scopeVars
    /\ UNCHANGED limit
    /\ UNCHANGED compVars

\* one fixed application: A, B depending on A, and a request component C
InitLife ==
    /\ strategy = [n \in Names |-> IF n = Decl[3] THEN REQUEST ELSE SINGLETON]
    /\ dependencies = [n \in Names |->
                         IF n = Decl[2] THEN <<Decl[1]>> ELSE <<>>]
    /\ config = [n \in Names |-> "full"]
    /\ limit = MaxLifeCalls
    /\ legacy = FALSE
    /\ InitRegistry
    /\ InitScopes

NextLife ==
    \/ start
    \/ start_iter
    \/ start_pass_end
    \/ stop
    \/ stop_iter
    \/ stop_end
    \/ configure
    \/ healthcheck

SpecLife == InitLife /\ [][NextLife]_vars

\* a call that was made runs on: the event loop resumes the coroutine of
\* start() or stop() after every await until the call has ended
SpecLifeFair ==
    SpecLife /\ WF_vars(start_iter \/ start_pass_end \/ stop_iter \/ stop_end)

(***************************************************************************)
(* Request scopes: BaseApp.request_scope, _RequestScopeManager,            *)
(* ComponentDescriptor.__get__                                             *)
(***************************************************************************)
\* a plain module-level global instead of a context variable
ctx_set_global(c, t, v) == [x \in Tasks |-> v]

\* ContextVar.set / ContextVar.reset in the context of task t
ctx_set(c, t, v) == [c EXCEPT ![t] = v]

\* record a lookup by task t of name n with scope cache sc
log_get(t, n, sc) ==
    /\ gets < MaxGets
    /\ gets' = gets + 1
    /\ prevGet' = lastGet
    /\ lastGet' = [task |-> t, name |-> n, scope |-> sc,
                   id |-> returned(n, sc)]
    /\ IF cached(n, sc) = 0 /\ strategy[n] = REQUEST
       THEN /\ resolved_by' = [resolved_by EXCEPT ![nextInst + 1] = t]
            /\ born' = [born EXCEPT ![nextInst + 1] =
                          IF sc \in Range(stack[t]) THEN sc ELSE 0]
       ELSE UNCHANGED <<resolved_by, born>>

\* `async with app.request_scope() as req:` entered by task t
enter_scope(t) ==
    /\ nscopes < MaxScopes
    /\ LET m == nscopes + 1 IN
       /\ nscopes' = m
       /\ mgr_task' = [mgr_task EXCEPT ![m] = t]
       /\ token' = [token EXCEPT ![m] = cur[t]]
       /\ cur' = ctx_set(cur, t, m)
       /\ stack' = [stack EXCEPT ![t] = Append(@, m)]
    /\ UNCHANGED <<cache, closed, exited, body_raised, stops, born,
                   resolved_by, lastGet, prevGet, gets>>
    /\ UNCHANGED lifeVars
    /\ UNCHANGED auxVars
    /\ UNCHANGED compVars

\* index of the first entry of cache c whose stop() raises, 0 when none does
RECURSIVE first_failure(_, _, _)
first_failure(c, F, i) ==
    IF i > Len(c) THEN 0
    ELSE IF c[i].id \in F /\ obj_started[c[i].id] THEN i
    ELSE first_failure(c, F, i + 1)

\* __aexit__ of the innermost scope of task t; F are the objects whose
\* _stop hook fails, raised tells whether the body raised
exit_scope(t) ==
    /\ stack[t] # <<>>
    /\ LET m == stack[t][Len(stack[t])]
           c == cache[m]
       IN \E raised \in BOOLEAN,
             F \in SUBSET {o \in cache_ids(c) : obj_started[o]} :
          LET j == first_failure(c, F, 1)
              last == IF j = 0 THEN Len(c) ELSE j
              invoked == {c[i].id : i \in 1..last}
              stopped == {c[i].id : i \in 1..(IF j = 0 THEN Len(c) ELSE j - 1)}
          IN /\ stops' = [o \in Objs |->
                            IF o \in invoked THEN stops[o] + 1 ELSE stops[o]]
             /\ obj_started' = [o \in Objs |->
                                  IF o \in stopped THEN FALSE
                                  ELSE obj_started[o]]
             /\ body_raised' = [body_raised EXCEPT ![m] = raised]
             /\ stack' = [stack EXCEPT ![t] = SubSeq(@, 1, Len(@) - 1)]
             /\ IF j = 0
                THEN /\ cache' = [cache EXCEPT ![m] = <<>>]
                     /\ closed' = [closed EXCEPT ![m] = TRUE]
                     /\ cur' = ctx_set(cur, t, token[m])
                     /\ exited' = [exited EXCEPT ![m] = "ok"]
                ELSE /\ exited' = [exited EXCEPT ![m] = "failed"]
                     /\ UNCHANGED <<cache, closed, cur>>
    /\ UNCHANGED <<nscopes, mgr_task, token, born, resolved_by, lastGet,
                   prevGet, gets>>
    /\ UNCHANGED <<strategy, dependencies, state, config, instance,
                   instances, nextInst, obj_config, started_singletons, pc,
                   idx, changes, k, err, result, startLog, stopLog, calls,
                   op, entry>>
    /\ UNCHANGED auxVars
    /\ UNCHANGED compVars

\* `req.<name>` : _RequestScopeManager.__getattr__ by the task holding req
scope_getattr(t) ==
    /\ \E m \in 1..nscopes, n \in Names :
          /\ mgr_task[m] = t
          /\ get_component(n, m)
          /\ log_get(t, n, m)
    /\ UNCHANGED <<cur, stack, nscopes, mgr_task, token, closed, exited,
                   body_raised, stops>>
    /\ UNCHANGED <<strategy, dependencies, state, config, instance,
                   obj_started, started_singletons, pc, idx, changes, k,
                   err, result, startLog, stopLog, calls, op, entry>>
    /\ UNCHANGED auxVars
    /\ UNCHANGED compVars

\* `app.<name>` : ComponentDescriptor.__get__ in task t; a REQUEST name
\* while the ContextVar holds None raises and changes nothing
app_getattr(t) ==
    /\ \E n \in Names :
          IF strategy[n] = REQUEST /\ cur[t] = 0
          THEN /\ call' = [fn |-> "__get__", task |-> t, name |-> n,
                           raised |-> TRUE, at |-> gets]
               /\ UNCHANGED <<instances, nextInst, obj_config, cache, born,
                              resolved_by, lastGet, prevGet, gets>>
          ELSE /\ get_component(n, cur[t])
               /\ log_get(t, n, cur[t])
               /\ call' = [fn |-> "__get__", task |-> t, name |-> n,
                           raised |-> FALSE, at |-> gets + 1]
    /\ UNCHANGED <<cur, stack, nscopes, mgr_task, token, closed, exited,
                   body_raised, stops>>
    /\ UNCHANGED <<strategy, dependencies, state, config, instance,
                   obj_started, started_singletons, pc, idx, changes, k,
                   err, result, startLog, stopLog, calls, op, entry>>
    /\ UNCHANGED <<limit, health>>
    /\ UNCHANGED compVars

\* `other.<name>` for a REQUEST name, in task t, on a second instance of
\* the application class: its _current_scope is the same module-level
\* ContextVar, its container is its own
other_app_getattr(t) ==
    /\ \E n \in Names :
          /\ strategy[n] = REQUEST
          /\ IF cur[t] = 0
             THEN /\ call' = [fn |-> "other.__get__", task |-> t,
                              name |-> n, raised |-> TRUE, at |-> gets,
                              id |-> 0]
                  /\ UNCHANGED <<instances, nextInst, obj_config, cache,
                                 born, resolved_by, lastGet, prevGet, gets>>
             ELSE /\ get_component(n, cur[t])
                  /\ log_get(t, n, cur[t])
                  /\ call' = [fn |-> "other.__get__", task |-> t,
                              name |-> n, raised |-> FALSE, at |-> gets + 1,
                              id |-> returned(n, cur[t])]
    /\ UNCHANGED <<cur, stack, nscopes, mgr_task, token, closed, exited,
                   body_raised, stops>>
    /\ UNCHANGED <<strategy, dependencies, state, config, instance,
                   obj_started, started_singletons, pc, idx, changes, k,
                   err, result, startLog, stopLog, calls, op, entry>>
    /\ UNCHANGED <<limit, health>>
    /\ UNCHANGED compVars

\* DIContainer.get_component(name) called without a scope cache
container_get(t) ==
    /\ \E n \in Names :
          /\ get_component(n, 0)
          /\ log_get(t, n, 0)
    /\ UNCHANGED <<cur, stack, nscopes, mgr_task, token, closed, exited,
                   body_raised, stops>>
    /\ UNCHANGED <<strategy, dependencies, state, config, instance,
                   obj_started, started_singletons, pc, idx, changes, k,
                   err, result, startLog, stopLog, calls, op, entry>>
    /\ UNCHANGED auxVars
    /\ UNCHANGED compVars

\* `self._started = True` placed before the await of the _start hook
component_start_early_flag(t) ==
    /\ \E o \in 1..nextInst, ok \in BOOLEAN :
          /\ resolved_by[o] = t
          /\ ~obj_started[o]
          /\ obj_config[o] # "none"
          /\ obj_started' = [obj_started EXCEPT ![o] = TRUE]
          /\ call' = [fn |-> "Component.start", obj |-> o, raised |-> ~ok]
    /\ UNCHANGED scopeVars
    /\ UNCHANGED <<limit, health>>
    /\ UNCHANGED compVars
    /\ UNCHANGED <<strategy, dependencies, state, config, instance,
                   instances, nextInst, obj_config, started_singletons, pc,
                   idx, changes, k, err, result, startLog, stopLog, calls,
                   op, entry>>

\* Component.start() of a request object by the task that resolved it; ok
\* is the outcome of the _start hook
component_start(t) ==
    /\ \E o \in 1..nextInst, ok \in BOOLEAN :
          /\ resolved_by[o] = t
          /\ ~obj_started[o]
          /\ obj_config[o] # "none"
          /\ obj_started' = [obj_started EXCEPT ![o] = ok]
          /\ call' = [fn |-> "Component.start", obj |-> o, raised |-> ~ok]
    /\ UNCHANGED scopeVars
    /\ UNCHANGED <<limit, health>>
    /\ UNCHANGED compVars
    /\ UNCHANGED <<strategy, dependencies, state, config, instance,
                   instances, nextInst, obj_config, started_singletons, pc,
                   idx, changes, k, err, result, startLog, stopLog, calls,
                   op, entry>>

\* an application with one singleton and two request components
InitScope ==
    /\ strategy = [n \in Names |-> IF n = Decl[1] THEN SINGLETON ELSE REQUEST]
    /\ dependencies = [n \in Names |-> <<>>]
    /\ config = [n \in Names |-> "full"]
    /\ limit = MaxCalls
    /\ legacy = FALSE
    /\ InitRegistry
    /\ InitScopes

NextScope ==
    \E t \in Tasks :
        \/ enter_scope(t)
        \/ exit_scope(t)
        \/ scope_getattr(t)
        \/ app_getattr(t)
        \/ container_get(t)
        \/ component_start(t)

SpecScope == InitScope /\ [][NextScope]_vars

\* the body of every `async with app.request_scope()` block ends, so the
\* exit of an entered scope is eventually run
SpecScopeFair == SpecScope /\ \A t \in Tasks : WF_vars(exit_scope(t))

NextTwoApps ==
    \/ \E t \in Tasks : enter_scope(t)
    \/ \E t \in Tasks : exit_scope(t)
    \/ \E t \in Tasks : scope_getattr(t)
    \/ \E t \in Tasks : component_start(t)
    \/ \E t \in Tasks : other_app_getattr(t)

\* the scopes of one application, and attribute access on a second one
SpecTwoApps == InitScope /\ [][NextTwoApps]_vars

(***************************************************************************)
(* Properties of the dependency graph drawn by Init                        *)
(***************************************************************************)
\* dependency edges between singletons
Edges ==
    {e \in singleton_components \X singleton_components :
        e[2] \in Range(dependencies[e[1]])}

Compose(R) ==
    R \cup {e \in Names \X Names :
              \E b \in Names : <<e[1], b>> \in R /\ <<b, e[2]>> \in R}

RECURSIVE Closure(_, _)
Closure(R, i) == IF i = 0 THEN R ELSE Closure(Compose(R), i - 1)

Reach == Closure(Edges, Cardinality(Names))

\* singletons that lie on a dependency cycle
CycleMembers == {n \in singleton_components : <<n, n>> \in Reach}

\* every dependency of a singleton is a registered singleton
WellFormed ==
    \A n \in singleton_components :
        Range(dependencies[n]) \subseteq singleton_components

\* position of name n in the sequence s, 0 when absent
Pos(s, n) == IF n \in Range(s)
             THEN CHOOSE i \in 1..Len(s) : s[i] = n
             ELSE 0

NoDup(s) == \A i, j \in 1..Len(s) : s[i] = s[j] => i = j

IsPrefix(s, t) ==
    /\ Len(s) <= Len(t)
    /\ \A i \in 1..Len(s) : s[i] = t[i]

\* a start() call has returned (normally or with an error)
StartReturned == op = "start" /\ pc = "idle"

\* a stop() call has returned (normally or with an error)
StopReturned == op = "stop" /\ pc = "idle"

\* some component hook failed during the call
HookFailed == err.kind = "start_hook" \/ result.kind = "stop_hook"

(***************************************************************************)
(* C1                                                                      *)
(***************************************************************************)
\* C1: for an acyclic, well-formed singleton graph whose singletons are all
\* CONFIGURED when start() is called, and with no hook failing, start()
\* returns normally having invoked the start hook of every singleton exactly
\* once, each one after all of its dependencies.
C1_StartsAllInOrder ==
    (/\ StartReturned
     /\ entry.configured
     /\ WellFormed
     /\ CycleMembers = {}
     /\ ~HookFailed)
    => /\ result = Ok
       /\ Range(startLog) = singleton_components
       /\ NoDup(startLog)
       /\ \A e \in Edges :
             Pos(startLog, e[2]) < Pos(startLog, e[1])

(***************************************************************************)
(* C2                                                                      *)
(***************************************************************************)
\* the sequence s backwards
Rev(s) == [i \in 1..Len(s) |-> s[Len(s) + 1 - i]]

\* C2: during a stop() that directly follows a successful start() which
\* started the singletons that are started, the stop hooks invoked so far
\* are a prefix of the reverse of the start order; when stop() returns
\* normally they are exactly the reverse of the start order.
C2_StopReversesStart ==
    (/\ op = "stop"
     /\ entry.prev = "start"
     /\ entry.prev_ok
     /\ entry.covers)
    => /\ IsPrefix(stopLog, Rev(startLog))
       /\ (StopReturned /\ result = Ok => stopLog = Rev(startLog))

\* a stop() after a successful start() of a dependent pair has returned
C2_Witness ==
    /\ StopReturned
    /\ entry.prev = "start"
    /\ entry.prev_ok
    /\ entry.covers
    /\ result = Ok
    /\ Len(stopLog) >= 2
    /\ \E e \in Edges : Pos(stopLog, e[1]) < Pos(stopLog, e[2])

(***************************************************************************)
(* C3                                                                      *)
(***************************************************************************)
\* C3: when the start hook of a singleton fails during start(), then once
\* start() has returned that component is in ERROR, it was the last one
\* whose start hook ran, every singleton started earlier in the call is
\* STOPPED, the started list is empty and the error names the component.
C3_FailedStartRolledBack ==
    (StartReturned /\ err.kind = "start_hook")
    => LET failed == startLog[Len(startLog)] IN
       /\ state[failed] = ERROR
       /\ err.names = {failed}
       /\ failed \in result.names
       /\ \A i \in 1..(Len(startLog) - 1) : state[startLog[i]] = STOPPED
       /\ started_singletons = <<>>

(***************************************************************************)
(* C4                                                                      *)
(***************************************************************************)
\* C4: the rollback of a failed start() is best-effort: whatever the stop
\* hooks do, once start() has returned no singleton is left STARTED, the
\* started list is empty and the error surfaced is the start failure.
C4_RollbackBestEffort ==
    (StartReturned /\ err.kind # "none")
    => /\ result = err
       /\ started_singletons = <<>>
       /\ \A n \in singleton_components : state[n] # STARTED

(***************************************************************************)
(* C5                                                                      *)
(***************************************************************************)
\* C5: start() on an otherwise well-formed singleton graph with a cycle
\* fails with a circular-dependency error that names every singleton on the
\* cycle, and leaves no singleton STARTED.
C5_CycleReported ==
    (/\ StartReturned
     /\ entry.configured
     /\ entry.prev = "none"
     /\ WellFormed
     /\ CycleMembers # {}
     /\ err.kind \notin {"start_hook", "config_not_set"})
    => /\ result.kind = "circular"
       /\ CycleMembers \subseteq result.names
       /\ \A n \in singleton_components : state[n] # STARTED

(***************************************************************************)
(* C6                                                                      *)
(***************************************************************************)
\* a singleton depends on an unregistered name or on a REQUEST component
StructuralError ==
    \E n \in singleton_components :
        \E d \in Range(dependencies[n]) :
            d \notin Names \/ strategy[d] = REQUEST

\* C6: when a singleton depends on an unregistered name or on a REQUEST
\* component, start() fails and no start hook is ever invoked.
C6_StructuralErrorsBeforeStartup ==
    (op = "start" /\ StructuralError)
    => /\ startLog = <<>>
       /\ (pc = "idle" => result.kind \notin {"ok", "none"})

(***************************************************************************)
(* C7                                                                      *)
(***************************************************************************)
\* C7: once the scope an object was created in has been exited (whether
\* its body raised or not), stop() has been invoked on the object exactly
\* once.
C7_ScopeExitStopsEachOnce ==
    \A o \in 1..nextInst :
        (born[o] # 0 /\ exited[born[o]] # "no") => stops[o] = 1

(***************************************************************************)
(* C8                                                                      *)
(***************************************************************************)
\* C8: when a stop hook failed during the exit of a scope, stop() was still
\* invoked on every object created in the scope, the scope cache was
\* cleared and the previously active scope was restored.
C8_TeardownContinuesAfterFailure ==
    \A m \in 1..nscopes :
        exited[m] = "failed"
        => /\ \A o \in 1..nextInst : born[o] = m => stops[o] = 1
           /\ cache[m] = <<>>
           /\ cur[mgr_task[m]] # m

(***************************************************************************)
(* C9                                                                      *)
(***************************************************************************)
\* the object is held by no cache
Uncached(o) ==
    /\ \A m \in Scopes : o \notin cache_ids(cache[m])
    /\ \A n \in Names : instances[n] # o

\* C9: for the two most recent lookups of one name: a SINGLETON name gave
\* the same object both times, the one the container caches; a REQUEST name
\* looked up with the same scope cache, not exited meanwhile, gave the same
\* object; a REQUEST name looked up twice without a scope gave two distinct
\* objects held by no cache.
C9_LookupIdentity ==
    (gets >= 2 /\ prevGet.name = lastGet.name)
    => LET n == lastGet.name IN
       /\ strategy[n] = SINGLETON
            => lastGet.id = prevGet.id /\ instances[n] = lastGet.id
       /\ (/\ strategy[n] = REQUEST
           /\ lastGet.scope # 0
           /\ lastGet.scope = prevGet.scope
           /\ exited[lastGet.scope] = "no")
            => lastGet.id = prevGet.id
       /\ (strategy[n] = REQUEST /\ lastGet.scope = 0 /\ prevGet.scope = 0)
            => /\ lastGet.id # prevGet.id
               /\ Uncached(lastGet.id)
               /\ Uncached(prevGet.id)

\* the same REQUEST name was resolved twice in one live scope
C9_Witness ==
    /\ gets >= 2
    /\ prevGet.name = lastGet.name
    /\ strategy[lastGet.name] = REQUEST
    /\ lastGet.scope # 0
    /\ lastGet.scope = prevGet.scope
    /\ exited[lastGet.scope] = "no"
    /\ lastGet.id = prevGet.id

Innermost(t) == stack[t][Len(stack[t])]

\* C11: every exit of a scope, whether its body raised or not, leaves the
\* cache of that scope empty and makes current again the scope that was
\* current when it was entered; the scopes the task is still inside keep
\* their caches, and the objects in them are neither stopped nor handed a
\* stop() call.
C11_ExitClearsAndRestores ==
    [][\A t \in Tasks :
          Len(stack'[t]) < Len(stack[t])
          => /\ cache'[Innermost(t)] = <<>>
             /\ cur'[t] = token[Innermost(t)]
             /\ \A m \in Range(stack'[t]) :
                   /\ cache'[m] = cache[m]
                   /\ \A o \in cache_ids(cache[m]) :
                         /\ obj_started'[o] = obj_started[o]
                         /\ stops'[o] = stops[o]]_vars

(***************************************************************************)
(* C12                                                                     *)
(***************************************************************************)
\* the last direct call was a Component.start() whose _start hook raised,
\* on an object resolved into a scope that has not been exited
FailedStartInScope ==
    /\ call.fn = "Component.start"
    /\ call.raised
    /\ born[call.obj] # 0
    /\ exited[born[call.obj]] = "no"

\* C12 (as stated): after the start hook of a request object resolved in a
\* live scope has failed, the cache of that scope holds no entry for it.
C12_FailedStartNotCached ==
    FailedStartInScope => call.obj \notin cache_ids(cache[born[call.obj]])

\* C12 (amended): a lookup invokes no start hook, it only constructs and
\* caches the object; when the caller's start() on the object then fails,
\* the object is not started and is still the entry of the scope cache.
C12_FailedStartStaysCached ==
    /\ [](FailedStartInScope
            => /\ call.obj \in cache_ids(cache[born[call.obj]])
               /\ ~obj_started[call.obj])
    /\ [][gets' # gets
            => /\ obj_started' = obj_started
               /\ (call'.fn = "Component.start" => call' = call)
               /\ (nextInst' # nextInst => ~obj_started'[nextInst'])]_vars

\* the start hook of an object cached in a live scope has failed
C12_Witness ==
    /\ FailedStartInScope
    /\ call.obj \in cache_ids(cache[born[call.obj]])
    /\ lastGet.id = call.obj

(***************************************************************************)
(* C13                                                                     *)
(***************************************************************************)
\* a step of a stop() call made when the started list is empty, or of a
\* stop() call that directly follows a stop() which returned normally
StepOfIdleStop ==
    /\ op' = "stop"
    /\ \/ pc = "idle" /\ calls' = calls + 1
       \/ pc = "stop"
    /\ \/ started_singletons = <<>>
       \/ pc = "idle" /\ op = "stop" /\ result = Ok

C14_StopDiscardsInstances ==
    (StopReturned /\ result = Ok)
    => /\ started_singletons = <<>>
       /\ \A n \in Range(stopLog) :
             /\ state[n] = STOPPED
             /\ instance[n] = 0
             /\ instances[n] = 0
             /\ cached(n, 0) = 0

(***************************************************************************)
(* C15                                                                     *)
(***************************************************************************)
\* a healthcheck() call has returned (normally or with an error)
HealthReturned == op = "healthcheck" /\ pc = "idle"

\* C15: when healthcheck() has returned, it returned a map; every
\* singleton of the started list has an entry in it, and a component whose
\* probe threw or returned false is recorded as false.
C15_ProbeFailureRecorded ==
    HealthReturned
    => /\ result = Ok
       /\ \A n \in Range(started_singletons) : health[n] # "absent"
       /\ \A n \in Names :
             call.probe[n] \in {"false", "raise"} => health[n] = "false"

(***************************************************************************)
(* C16                                                                     *)
(***************************************************************************)
\* the singletons that are in state STARTED
StartedNow == {n \in Names : strategy[n] = SINGLETON /\ state[n] = STARTED}

\* C16: the key set of the map healthcheck() returned is exactly the set
\* of singletons that are STARTED (so it is empty when none is).
C16_ReportsStartedOnly ==
    (HealthReturned /\ result = Ok)
    => {n \in Names : health[n] # "absent"} = StartedNow

(***************************************************************************)
(* C17                                                                     *)
(***************************************************************************)
\* states from which the transition table allows CONFIGURED
MayConfigure == {REGISTERED, STOPPED, ERROR, CONFIGURED}

\* C17: a configure() call changes a component only along the transition
\* table: from a state that allows it the component becomes CONFIGURED;
\* from any other state (STARTED) the call fails with the invalid
\* transition error and the component is forced into ERROR.
C17_ConfigureValidated ==
    [][(op' = "configure" /\ calls' = calls + 1)
         => \A n \in Names :
               (state'[n] # state[n] \/ config'[n] # config[n])
               => IF state[n] \in MayConfigure
                  THEN state'[n] = CONFIGURED
                  ELSE /\ state'[n] = ERROR
                       /\ result'.kind = "bad_transition"]_vars

(***************************************************************************)
(* C18                                                                     *)
(***************************************************************************)
\* the transitions of the table: the four lifecycle steps, any state to
\* ERROR, ERROR to any state
Table ==
    {<<REGISTERED, CONFIGURED>>, <<CONFIGURED, STARTED>>,
     <<STARTED, STOPPED>>, <<STOPPED, CONFIGURED>>}
    \cup {<<x, ERROR>> : x \in ComponentState}
    \cup {<<ERROR, x>> : x \in ComponentState}

\* C18: after set_state(new) on a component in state old: when new = old
\* the call returned and the state is old; when old -> new is in the table
\* the call returned and the state is new; otherwise the call raised and
\* the state is still old.
C18_SetStateTable ==
    call.fn = "set_state"
    => IF call.new = call.old
       THEN ~call.raised /\ state[call.name] = call.old
       ELSE IF <<call.old, call.new>> \in Table
       THEN ~call.raised /\ state[call.name] = call.new
       ELSE call.raised /\ state[call.name] = call.old

\* a transition outside the table was requested and rejected
C18_Witness ==
    /\ call.fn = "set_state"
    /\ call.old = STARTED
    /\ call.new = CONFIGURED
    /\ call.raised
    /\ state[call.name] = STARTED

(***************************************************************************)
(* C19                                                                     *)
(***************************************************************************)
\* Component._config of the object the container holds for n
HeldConfig(n) == IF instances[n] = 0 THEN "none" ELSE obj_config[instances[n]]

\* C19: a STARTED component has a config, and so has its instance; a
\* start hook is invoked only on a component that is CONFIGURED and whose
\* instance has a config; a start that fails on the state or config test
\* invokes no hook.
C19_NoStartWithoutConfig ==
    /\ [](\A n \in Names :
            state[n] = STARTED
            => config[n] # "none" /\ HeldConfig(n) # "none")
    /\ [][Len(startLog') = Len(startLog) + 1
            => LET n == startLog'[Len(startLog')] IN
               /\ state[n] = CONFIGURED
               /\ obj_config'[instances'[n]] # "none"]_vars
    /\ [][(pc = "pass" /\ err'.kind \in {"not_configured", "config_not_set"})
            => /\ startLog' = startLog
               /\ \A n \in err'.names : state'[n] # STARTED]_vars

\* a start() failed on a component whose instance has no config, without
\* invoking its start hook
C19_Witness ==
    /\ StartReturned
    /\ err.kind = "config_not_set"
    /\ err.names \cap Range(startLog) = {}
    /\ \A n \in err.names : state[n] = ERROR /\ HeldConfig(n) = "none"

HooksOf(o) == SelectSeq(hookLog, LAMBDA e : e.obj = o)

\* _start, _stop, _start, ... beginning with _start
Alternates(h) ==
    \A i \in 1..Len(h) :
        h[i].hook = (IF i % 2 = 1 THEN "_start" ELSE "_stop")

\* the last successful hook of object o is a _start
StartedByLog(o) ==
    LET h == SelectSeq(HooksOf(o), LAMBDA e : e.ok) IN
    Len(h) > 0 /\ h[Len(h)].hook = "_start"

\* C21 (Component of components/component.py): a stop() on a component
\* that never started, whose start failed, or that is stopped returns
\* without invoking _stop; a start() on a started component invokes no
\* _start; as long as no hook of an object has failed, the hooks invoked on
\* it alternate _start, _stop, _start, ...
C21_StopIdempotentHooksAlternate ==
    /\ [](~legacy
            => \A o \in 1..nextInst :
                  (\A i \in 1..Len(HooksOf(o)) : HooksOf(o)[i].ok)
                  => Alternates(HooksOf(o)))
    /\ [][(~legacy /\ calls' = calls + 1
             /\ call'.fn = "Component.stop" /\ ~StartedByLog(call'.obj))
            => hookLog' = hookLog /\ ~call'.raised]_vars
    /\ [][(~legacy /\ calls' = calls + 1
             /\ call'.fn = "Component.start" /\ StartedByLog(call'.obj))
            => hookLog' = hookLog /\ ~call'.raised]_vars

\* a stop() on a component whose only start failed has returned, with no
\* _stop hook invoked
C21_Witness ==
    /\ ~legacy
    /\ call.fn = "Component.stop"
    /\ ~call.raised
    /\ HooksOf(call.obj) = <<[obj |-> call.obj, hook |-> "_start",
                              ok |-> FALSE]>>

(***************************************************************************)
(* C22                                                                     *)
(***************************************************************************)
\* the value returned by the last successful _start hook of object o
LastStartValue(o) ==
    LET ok_starts == {i \in 1..Len(hookLog) :
                        /\ hookLog[i].obj = o
                        /\ hookLog[i].hook = "_start"
                        /\ hookLog[i].ok}
        last == CHOOSE i \in ok_starts : \A j \in ok_starts : j <= i
    IN  Cardinality({j \in 1..last : hookLog[j].hook = "_start"})

\* C22 (both Component classes): the obj accessor raises exactly when the
\* component is not started, that is unless its last successful hook is a
\* _start (so it raises before the first successful start, after a failed
\* start and after stop()); otherwise it returns the value produced by
\* that _start.
C22_ObjOnlyWhileStarted ==
    call.fn = "Component.obj"
    => /\ call.raised <=> ~StartedByLog(call.obj)
       /\ ~call.raised => call.ret = LastStartValue(call.obj)

(***************************************************************************)
(* C23                                                                     *)
(***************************************************************************)
\* every start() call ends
StartTerminates == (op = "start" /\ pc # "idle") ~> (pc = "idle")

\* a pass that ran to its end has started a singleton or raises the
\* circular-dependency error
PassProgress ==
    [][(pc = "pass" /\ idx > Len(Decl))
        => \/ Len(started_singletons) > 0 /\ changes
           \/ err'.kind = "circular"]_vars

\* C23: start() always ends; every eligibility pass starts a new
\* singleton or ends the call with the circular-dependency error; and a
\* start() that ended without an error ended with every singleton STARTED.
C23_StartTerminatesAllStarted ==
    /\ StartTerminates
    /\ PassProgress
    /\ [](StartReturned /\ result = Ok
            => \A n \in singleton_components : state[n] = STARTED)

(***************************************************************************)
(* C24                                                                     *)
(***************************************************************************)
\* the dependency edges between registered names, whatever their strategy
AllEdges ==
    {e \in Names \X Names : e[2] \in Range(dependencies[e[1]])}

AllReach == Closure(AllEdges, Cardinality(Names))

\* the names of the chain of open visit() calls from node n on: the cycle
\* that the visit of n closes
CycleClosedAt(st, n) ==
    {st[i] : i \in {j \in 1..Len(st) : j >= Pos(st, n)}}

\* C24: a circular-dependency error reports the full cycle path (every
\* name of the cycle found); an unknown-dependency error is raised for a
\* dependency that is not registered; a returned order holds every
\* registered name exactly once, each name after all of its dependencies.
C24_OrderOrCycleOrUnknown ==
    call.fn = "get_dependency_order"
    => /\ call.raised.kind = "circular"
          => \E n \in call.raised.names \cap Range(call.stack) :
                call.raised.names = CycleClosedAt(call.stack, n)
       /\ call.raised.kind = "unknown"
          => \E n \in Names :
                \E d \in Range(dependencies[n]) \ Names :
                   call.raised.names = {d, n}
       /\ call.raised = NoErr
          => /\ Range(call.order) = Names
             /\ NoDup(call.order)
             /\ \A e \in AllEdges :
                   Pos(call.order, e[2]) < Pos(call.order, e[1])

(***************************************************************************)
(* C25                                                                     *)
(***************************************************************************)
\* the step is an access `app.<name>` to a REQUEST component
RequestAccessByApp ==
    /\ call'.fn = "__get__"
    /\ strategy[call'.name] = REQUEST
    /\ \/ call'.raised /\ call' # call
       \/ ~call'.raised /\ gets' = gets + 1 /\ call'.at = gets'

\* C25: `app.<name>` for a REQUEST component raises and creates no
\* instance while the task has no request scope open; while it has one,
\* the access returns the instance cached in the innermost open scope.
C25_RequestAccessNeedsScope ==
    [][RequestAccessByApp
        => IF stack[call'.task] = <<>>
           THEN call'.raised /\ nextInst' = nextInst /\ cache' = cache
           ELSE /\ ~call'.raised
                /\ lastGet'.id =
                      cache_find(cache'[Innermost(call'.task)],
                                 call'.name, 1)]_vars

(***************************************************************************)
(* C26                                                                     *)
(***************************************************************************)
\* C26: whenever no start() or stop() is in progress, the started list
\* holds no name twice, and a singleton is in the list iff its state is
\* STARTED iff its ComponentInfo.instance is set.
C26_ListMatchesStates ==
    pc = "idle"
    => /\ NoDup(started_singletons)
       /\ \A n \in singleton_components :
             /\ n \in Range(started_singletons) <=> state[n] = STARTED
             /\ state[n] = STARTED <=> instance[n] # 0

(***************************************************************************)
(* C27                                                                     *)
(***************************************************************************)
\* C27: a start() called when every singleton is STARTED returns at once
\* without an error: no start hook is invoked, and the states, the cached
\* instances and the started list are unchanged.
C27_StartWhenStartedIsNoop ==
    [][(/\ pc = "idle"
        /\ op' = "start"
        /\ calls' = calls + 1
        /\ \A n \in singleton_components : state[n] = STARTED)
        => /\ pc' = "idle"
           /\ result' = Ok
           /\ startLog' = <<>>
           /\ UNCHANGED <<state, instance, instances, obj_started,
                          started_singletons>>]_vars

\* a start() made with both singletons STARTED has returned
C27_Witness ==
    /\ StartReturned
    /\ entry.all_started
    /\ entry.prev = "start"
    /\ Range(started_singletons) = singleton_components
    /\ result = Ok

C29_ScopeCacheHoldsRequestOnly ==
    /\ [](\A m \in Scopes : \A i \in 1..Len(cache[m]) :
             /\ strategy[cache[m][i].name] = REQUEST
             /\ \A n \in singleton_components :
                   instances[n] # cache[m][i].id)
    /\ [](\A n \in singleton_components :
             instances[n] # 0 => stops[instances[n]] = 0)
    /\ [][(/\ gets' = gets + 1
           /\ lastGet'.scope # 0
           /\ strategy[lastGet'.name] = SINGLETON)
           => /\ lastGet'.id = instances'[lastGet'.name]
              /\ cache' = cache]_vars
    /\ [][(\E t \in Tasks : Len(stack'[t]) < Len(stack[t]))
           => /\ state' = state
              /\ instance' = instance
              /\ \A n \in singleton_components :
                    instances[n] # 0
                    => obj_started'[instances[n]] = obj_started[instances[n]]]_vars

\* the singleton was resolved through a request scope and that scope has
\* been exited
C29_Witness ==
    /\ lastGet.scope # 0
    /\ strategy[lastGet.name] = SINGLETON
    /\ lastGet.id = instances[lastGet.name]
    /\ exited[lastGet.scope] = "ok"

(***************************************************************************)
(* C30                                                                     *)
(***************************************************************************)
\* the objects held in the scope caches of the application
InScopeCaches == UNION {cache_ids(cache[m]) : m \in Scopes}

\* C30: while a request scope of the application is open in a task, an
\* access to a REQUEST component by attribute on a second application in
\* that task returns no object of the first application's scope caches
\* and stores none into them.
C30_ScopeBelongsToOneApp ==
    [][(/\ call'.fn = "other.__get__"
        /\ ~call'.raised
        /\ gets' = gets + 1
        /\ call'.at = gets'
        /\ stack[call'.task] # <<>>)
        => /\ call'.id \notin InScopeCaches
           /\ cache' = cache]_vars

(***************************************************************************)
(* C31                                                                     *)
(***************************************************************************)
\* the step resolves a name through scope m (by the manager of m or by a
\* task whose current scope is m)
ResolvedThrough(m) == gets' = gets + 1 /\ lastGet'.scope = m

\* C31: the cache of a scope that has exited is empty and stays empty; a
\* lookup of a REQUEST name through a scope that has exited creates no
\* instance and stores none; every instance stored in a scope cache eventually has its stop
\* operation invoked.
C31_ExitedScopeStaysEmpty ==
    /\ [](\A m \in Scopes : exited[m] = "ok" => cache[m] = <<>>)
    /\ [][\A m \in Scopes :
            (/\ exited[m] # "no"
             /\ ResolvedThrough(m)
             /\ strategy[lastGet'.name] = REQUEST)
            => nextInst' = nextInst /\ cache' = cache]_vars
    /\ \A o \in Objs :
          (o \in InScopeCaches) ~> (stops[o] > 0)

(***************************************************************************)
(* C32                                                                     *)
(***************************************************************************)
\* a stop() of the legacy App has returned, called right after a start()
\* that returned
AppStoppedAfterStart ==
    call.fn = "App.stop" /\ ~call.raised /\ call.after_start

\* C32: a stop() of the legacy App that follows a start() stops the
\* components in the exact reverse of the order in which start() started
\* them, so every component is stopped before the components it depends
\* on.
C32_LegacyStopReversesStart ==
    AppStoppedAfterStart
    => /\ stopLog = Rev(startLog)
       /\ \A e \in AllEdges : Pos(stopLog, e[1]) < Pos(stopLog, e[2])

Next ==
    \/ start
    \/ start_iter
    \/ start_pass_end
    \/ stop
    \/ stop_iter
    \/ stop_end
    \/ configure

Spec == Init /\ [][Next]_vars

=============================================================================
